---- MODULE Spec2Model ----
(***************************************************************************)
(* Model of 04_deploy_model/notebook_utilities.py: the three notebook      *)
(* helpers get_latest_training_job_name, get_training_job_s3_model_artifacts*)
(* and check_dependencies, together with the parts of their environment    *)
(* they act on (the training-job service, the installed package set, the   *)
(* interpreter's module cache and the interactive kernel).                 *)
(*                                                                         *)
(* Strings that the code takes apart (version strings, job names) are      *)
(* sequences of one-character strings, so that split(".") , int() and the  *)
(* NameContains substring test are computed, not assumed.                  *)
(***************************************************************************)
EXTENDS Integers, Sequences, FiniteSets, TLC

VARIABLES
    \* ---- check_dependencies and its environment
    pkg,             \* version string of the sagemaker package installed on disk
    loaded,          \* sagemaker.__version__ of the module cached by this process, or none
    kernel,          \* whether IPython.Application.instance() has a kernel in this process
    restartPending,  \* a do_shutdown(True) was accepted and the kernel has not restarted yet
    dep,             \* record of the most recent check_dependencies call
    upgraded,        \* history: some earlier call's installer run succeeded
    \* ---- the training-job service and the two job helpers
    jobs,            \* remote training jobs: records [name, status, created, artifacts]
    clock,           \* the service's creation-time clock
    call,            \* record of the most recent job-helper call
    \* ---- versiontuple comparison taken alone
    na, nb,          \* the integer components two version strings are written from
    sa, sb,          \* the two version strings
    cmp              \* result of versiontuple(sa) < versiontuple(sb)

depVars == <<pkg, loaded, kernel, restartPending, dep, upgraded>>
jobVars == <<jobs, clock, call>>
verVars == <<na, nb, sa, sb, cmp>>
vars == <<pkg, loaded, kernel, restartPending, dep, upgraded, jobs, clock, call, na, nb, sa, sb, cmp>>

\* ------------------------------------------------------------------ bounds
\* Longest version string, in dot-separated segments.
MaxSegs == 3
\* Most training jobs the service holds.
MaxJobs == 3
\* Largest creation time the service's clock reaches.
MaxTime == 3
\* Most summaries the listing service returns in one page (MaxResults).
MaxResults == 2

\* ------------------------------------------------------------------ strings
Min(a, b) == IF a <= b THEN a ELSE b

DigitChars == <<"0", "1", "2", "3", "4", "5", "6", "7", "8", "9">>

IsDigit(c) == \E i \in 1..10 : DigitChars[i] = c

DigitVal(c) == (CHOOSE i \in 1..10 : DigitChars[i] = c) - 1

\* Decimal rendering of a natural number, as str(n) writes it.
RECURSIVE Decimal(_)
Decimal(n) == IF n < 10 THEN <<DigitChars[n + 1]>>
              ELSE Decimal(n \div 10) \o <<DigitChars[(n % 10) + 1]>>

\* ".".join(parts)
RECURSIVE Join(_)
Join(parts) == IF Len(parts) = 0 THEN <<>>
               ELSE IF Len(parts) = 1 THEN parts[1]
               ELSE parts[1] \o <<".">> \o Join(Tail(parts))

\* v.split("."): the segments between dots; an empty string gives one empty segment.
RECURSIVE SplitDot(_)
SplitDot(v) ==
    IF \A i \in 1..Len(v) : v[i] # "."
    THEN <<v>>
    ELSE LET d == CHOOSE i \in 1..Len(v) : v[i] = "." /\ \A j \in 1..(i - 1) : v[j] # "."
         IN  <<SubSeq(v, 1, d - 1)>> \o SplitDot(SubSeq(v, d + 1, Len(v)))

\* int(s) succeeds on a non-empty run of decimal digits (leading zeros allowed).
IntParses(s) == Len(s) > 0 /\ \A i \in 1..Len(s) : IsDigit(s[i])

RECURSIVE IntOf(_)
IntOf(s) == IF Len(s) = 0 THEN 0
            ELSE 10 * IntOf(SubSeq(s, 1, Len(s) - 1)) + DigitVal(s[Len(s)])

\* A bug the parse could have: the digits of each segment taken, the rest dropped.
versiontupleLenient(v) ==
    LET segs == SplitDot(v)
    IN  [ok |-> TRUE, val |-> [i \in 1..Len(segs) |-> IntOf(SelectSeq(segs[i], IsDigit))]]

\* versiontuple(v) = tuple(map(int, v.split("."))): tuple() consumes the whole map,
\* so one bad segment anywhere raises ValueError.
versiontuple(v) ==
    LET segs == SplitDot(v)
    IN  IF \A i \in 1..Len(segs) : IntParses(segs[i])
        THEN [ok |-> TRUE, val |-> [i \in 1..Len(segs) |-> IntOf(segs[i])]]
        ELSE [ok |-> FALSE, val |-> <<>>]

\* A bug the comparison could have: components compared as text, "9" > "10".
RECURSIVE TextLess(_, _)
TextLess(a, b) ==
    IF Len(a) = 0 \/ Len(b) = 0 THEN Len(a) < Len(b)
    ELSE IF Head(a) # Head(b)
         THEN LET x == Decimal(Head(a))
                  y == Decimal(Head(b))
                  k == CHOOSE i \in 1..(Min(Len(x), Len(y)) + 1) :
                          /\ \A j \in 1..(i - 1) : x[j] = y[j]
                          /\ (i > Min(Len(x), Len(y)) \/ x[i] # y[i])
              IN  IF k > Min(Len(x), Len(y)) THEN Len(x) < Len(y)
                  ELSE DigitVal(x[k]) < DigitVal(y[k])
         ELSE TextLess(Tail(a), Tail(b))

\* A bug the comparison could have: <= written for <.
RECURSIVE TupleLessOrEqual(_, _)
TupleLessOrEqual(a, b) ==
    IF Len(a) = 0 \/ Len(b) = 0 THEN Len(a) <= Len(b)
    ELSE IF Head(a) # Head(b) THEN Head(a) < Head(b)
         ELSE TupleLessOrEqual(Tail(a), Tail(b))

\* Python's a < b on tuples of integers: the first differing pair decides,
\* and with none the shorter tuple is the lesser.
RECURSIVE TupleLess(_, _)
TupleLess(a, b) ==
    IF Len(a) = 0 \/ Len(b) = 0 THEN Len(a) < Len(b)
    ELSE IF Head(a) # Head(b) THEN Head(a) < Head(b)
         ELSE TupleLess(Tail(a), Tail(b))

\* ------------------------------------------------------------------ inputs
\* Component values version strings are written from.
Components == {0, 2, 9, 10}

TuplesUpTo(S, n) == UNION {[1..k -> S] : k \in 1..n}

\* The version string written from integer components.
Render(t) == Join([i \in 1..Len(t) |-> Decimal(t[i])])

\* Version strings sagemaker.__version__ may hold: the components joined by dots,
\* with a pre-release suffix "rc1" on segment `bad` (none when bad = 0).
RenderSuffixed(t, bad) ==
    Join([i \in 1..Len(t) |->
            IF i = bad THEN Decimal(t[i]) \o <<"r", "c", "1">> ELSE Decimal(t[i])])

DepComponents == {0, 2, 9, 90, 100}

\* A trailing dot, a doubled dot, a leading zero, the empty string.
OddVersions ==
    { <<"2", ".", "9", "0", ".">>, <<"2", ".", ".", "0">>,
      <<"2", ".", "0", "9", "0", ".", "0">>, <<"2", ".", "0", "8", "9">>, <<>> }

InstalledVersions ==
    {RenderSuffixed(t, bad) : <<t, bad>> \in
        {<<t, bad>> \in TuplesUpTo(DepComponents, MaxSegs) \X (0..MaxSegs) : bad <= Len(t)}}
    \cup OddVersions

\* ------------------------------------------------------------------ check_dependencies
\* required_version = '2.90.0'
required_version == <<"2", ".", "9", "0", ".", "0">>

\* A bug the command could have: the pin mistyped as 2.9.0.
InstallCommandWrongPin ==
    [exe |-> "sys.executable", argv |-> <<"-m", "pip", "install", "-U">>,
     name |-> "sagemaker", op |-> "==", version |-> <<"2", ".", "9", ".", "0">>]

\* '{} -m pip install -U sagemaker=={}'.format(sys.executable, required_version)
InstallCommand ==
    [exe |-> "sys.executable", argv |-> <<"-m", "pip", "install", "-U">>,
     name |-> "sagemaker", op |-> "==", version |-> required_version]

NoArg == [none |-> TRUE]

Ev(e, arg) == [e |-> e, arg |-> arg]

\* What the pip subprocess writes to its standard output.
PipOutput(cmd, pipOK) == [pip |-> cmd, succeeded |-> pipOK]

\* The package set after the command has run: a successful run leaves exactly the
\* pinned version installed, a failed one leaves the set as it was.  os.popen runs
\* the command through the shell and does not look at its exit status.
PipInstall(cmd, pipOK, installed) == IF pipOK THEN cmd.version ELSE installed

\* A bug the install step could have: the installer started and its output never
\* read, so that nothing waits for it before the restart.
InstallBlockNoRead(ver, pipOK) ==
    << Ev("print", [text |-> "tested-with", required |-> required_version, using |-> ver]),
       Ev("popen", InstallCommand) >>

\* Lines 33-37: the diagnostic, the installer run, its output read and printed.
InstallBlock(ver, pipOK) ==
    << Ev("print", [text |-> "tested-with", required |-> required_version, using |-> ver]),
       Ev("popen", InstallCommand),
       Ev("read", NoArg),
       Ev("print", PipOutput(InstallCommand, pipOK)) >>

\* A bug the restart step could have: a missing kernel passed over in silence.
RestartBlockGuarded(hasKernel) ==
    IF hasKernel
    THEN [events |-> << Ev("print", [text |-> "Restarting kernel after installing new dependencies..."]),
                        Ev("do_shutdown", [restart |-> TRUE]),
                        Ev("print", [text |-> "WARNING: Kernel restarting...please wait 30 seconds before moving to the next cell!"]) >>,
          outcome |-> "returned"]
    ELSE [events |-> << Ev("print", [text |-> "Restarting kernel after installing new dependencies..."]) >>,
          outcome |-> "returned"]

\* Lines 39-42: the restart, when one is required.
RestartBlock(hasKernel) ==
    IF hasKernel
    THEN [events |-> << Ev("print", [text |-> "Restarting kernel after installing new dependencies..."]),
                        Ev("do_shutdown", [restart |-> TRUE]),
                        Ev("print", [text |-> "WARNING: Kernel restarting...please wait 30 seconds before moving to the next cell!"]) >>,
          outcome |-> "returned"]
    ELSE [events |-> << Ev("print", [text |-> "Restarting kernel after installing new dependencies..."]) >>,
          outcome |-> "AttributeError"]

\* Line 32: versiontuple(sagemaker.__version__) < versiontuple(required_version),
\* the left operand evaluated first.
NeedsInstall(ver) == TupleLess(versiontuple(ver).val, versiontuple(required_version).val)

\* The body of check_dependencies from line 29 on, for the version it read, the
\* presence of a kernel and the installer's fate: the effects in program order and
\* how the call ends.
CheckRun(ver, hasKernel, pipOK) ==
    IF ~versiontuple(ver).ok
    THEN [events |-> <<>>, kernel_restart_required |-> FALSE, outcome |-> "ValueError"]
    ELSE LET lt == NeedsInstall(ver)
             first == IF lt THEN InstallBlock(ver, pipOK) ELSE <<>>
             kernel_restart_required == lt
             second == IF kernel_restart_required
                       THEN RestartBlock(hasKernel)
                       ELSE [events |-> <<>>, outcome |-> "returned"]
         IN  [events |-> first \o second.events,
              kernel_restart_required |-> kernel_restart_required,
              outcome |-> second.outcome]

Has(events, e) == \E i \in 1..Len(events) : events[i].e = e

Count(events, e) == Cardinality({i \in 1..Len(events) : events[i].e = e})

Unloaded == [present |-> FALSE, version |-> <<>>]

NoDep == [outcome |-> "none", version |-> <<>>, fresh |-> FALSE, hadKernel |-> FALSE,
          pipOK |-> FALSE, events |-> <<>>, kernel_restart_required |-> FALSE]

\* One call of check_dependencies().  `import sagemaker` binds the module this
\* process has cached, and reads the installed package only when none is cached.
check_dependencies(pipOK) ==
    /\ ~restartPending
    /\ LET ver == IF loaded.present THEN loaded.version ELSE pkg
           r == CheckRun(ver, kernel, pipOK)
           ran == Has(r.events, "popen")
       IN  /\ loaded' = [present |-> TRUE, version |-> ver]
           /\ pkg' = IF ran THEN PipInstall(InstallCommand, pipOK, pkg) ELSE pkg
           /\ restartPending' = Has(r.events, "do_shutdown")
           /\ upgraded' = (upgraded \/ (ran /\ pipOK))
           /\ dep' = [outcome |-> r.outcome, version |-> ver, fresh |-> ~loaded.present,
                      hadKernel |-> kernel, pipOK |-> (ran /\ pipOK), events |-> r.events,
                      kernel_restart_required |-> r.kernel_restart_required]
    /\ UNCHANGED kernel
    /\ UNCHANGED <<jobVars, verVars>>

\* The kernel acts on do_shutdown(True): the process is replaced by a new one,
\* which has imported nothing.
KernelRestart ==
    /\ restartPending
    /\ restartPending' = FALSE
    /\ loaded' = Unloaded
    /\ UNCHANGED <<pkg, kernel, dep, upgraded, jobVars, verVars>>

\* The user starts another interpreter, with or without an interactive kernel.
NewSession(k) ==
    /\ ~restartPending
    /\ loaded.present
    /\ loaded' = Unloaded
    /\ kernel' = k
    /\ UNCHANGED <<pkg, restartPending, dep, upgraded, jobVars, verVars>>

NoJobCall == [op |-> "none", arg |-> <<>>, requests |-> <<>>, outcome |-> "none", value |-> <<>>]

NoCmp == [done |-> FALSE, ta |-> <<>>, tb |-> <<>>, less |-> FALSE]

JobsIdle == jobs = {} /\ clock = 0 /\ call = NoJobCall

VerIdle == na = <<>> /\ nb = <<>> /\ sa = <<>> /\ sb = <<>> /\ cmp = NoCmp

DepIdle ==
    /\ pkg = required_version /\ loaded = Unloaded /\ kernel = TRUE
    /\ restartPending = FALSE /\ dep = NoDep /\ upgraded = FALSE

Init ==
    /\ pkg \in InstalledVersions
    /\ loaded = Unloaded
    /\ kernel \in BOOLEAN
    /\ restartPending = FALSE
    /\ dep = NoDep
    /\ upgraded = FALSE
    /\ JobsIdle
    /\ VerIdle

Next ==
    \/ \E pipOK \in BOOLEAN : check_dependencies(pipOK)
    \/ KernelRestart
    \/ \E k \in BOOLEAN : NewSession(k)

Spec == Init /\ [][Next]_vars

\* ------------------------------------------------------------------ what the claims speak of
\* The required version 2.90.0 as integers.
RequiredTuple == <<2, 90, 0>>

\* Lexicographic order on integer tuples, stated directly: the first differing
\* component decides, and a strict prefix is the lesser.
LexLess(a, b) ==
    \/ \E i \in 1..Min(Len(a), Len(b)) : a[i] < b[i] /\ \A j \in 1..(i - 1) : a[j] = b[j]
    \/ Len(a) < Len(b) /\ \A j \in 1..Len(a) : a[j] = b[j]

\* Some dot-separated segment of v is not a decimal integer: v holds a character
\* that is neither digit nor dot, or a segment of v is empty.
HasBadSegment(v) ==
    \/ Len(v) = 0
    \/ \E i \in 1..Len(v) : v[i] # "." /\ ~IsDigit(v[i])
    \/ v[1] = "." \/ v[Len(v)] = "."
    \/ \E i \in 1..(Len(v) - 1) : v[i] = "." /\ v[i + 1] = "."

Parsed(v) == versiontuple(v).val

Older(v) == ~HasBadSegment(v) /\ LexLess(Parsed(v), RequiredTuple)

Current(v) == ~HasBadSegment(v) /\ ~LexLess(Parsed(v), RequiredTuple)

Called == dep.outcome # "none"

Installs(d) == Count(d.events, "popen")

Signals(d) == Count(d.events, "do_shutdown")

IsCall == \E pipOK \in BOOLEAN : check_dependencies(pipOK)

PinnedCommand ==
    [exe |-> "sys.executable", argv |-> <<"-m", "pip", "install", "-U">>,
     name |-> "sagemaker", op |-> "==", version |-> <<"2", ".", "9", "0", ".", "0">>]

\* C3: a call that reads a version >= 2.90.0 runs no installer, signals no restart,
\* returns, and leaves the installed package as it was; and no call ever replaces
\* an installed version >= 2.90.0 by an older one.
C3_NoInstallWhenCurrent ==
    [][IsCall =>
        /\ Current(dep'.version) =>
              /\ Installs(dep') = 0 /\ Signals(dep') = 0
              /\ dep'.outcome = "returned" /\ ~restartPending'
              /\ pkg' = pkg
        /\ Current(pkg) => Current(pkg') /\ ~LexLess(Parsed(pkg'), Parsed(pkg))]_vars

C3_Witness ==
    /\ Called /\ dep.fresh /\ ~HasBadSegment(dep.version)
    /\ LexLess(RequiredTuple, Parsed(dep.version))
    /\ dep.outcome = "returned" /\ dep.events = <<>> /\ pkg = dep.version

C7_MalformedVersionFailsFirst ==
    [][(IsCall /\ HasBadSegment(dep'.version)) =>
          /\ dep'.outcome = "ValueError"
          /\ dep'.events = <<>>
          /\ pkg' = pkg /\ ~restartPending']_vars

C7_Witness ==
    /\ dep.outcome = "ValueError"
    /\ dep.version = <<"2", ".", "9", "0", ".", "0", "r", "c", "1">>

\* C8 as claimed: when the installer ran and did not succeed, the call raises,
\* marks no restart and issues no restart signal.
C8_FailedInstallRaises ==
    (Called /\ Installs(dep) >= 1 /\ ~dep.pipOK) =>
        /\ dep.outcome # "returned"
        /\ ~dep.kernel_restart_required
        /\ Signals(dep) = 0

C9_WitnessNoKernelNoRestart ==
    Called /\ Current(dep.version) /\ ~dep.hadKernel /\ dep.outcome = "returned"

\* C10: across calls each made in a newly started process: once an installer run
\* has succeeded, every such call returns with no installer run and no restart
\* signal; and a call in a kernel that reads an older version and whose installer
\* run leaves the installed version as it was runs the installer once and signals
\* the restart once, leaving the next call in the same position.
C10_ConvergesAfterOneInstall ==
    [][(IsCall /\ ~loaded.present) =>
          /\ upgraded =>
                /\ Current(dep'.version)
                /\ dep'.events = <<>> /\ dep'.outcome = "returned"
                /\ ~restartPending' /\ pkg' = pkg
          /\ (kernel /\ Older(pkg) /\ pkg' = pkg) =>
                /\ Installs(dep') = 1 /\ Signals(dep') = 1
                /\ restartPending' /\ Older(pkg')]_vars

C10_Witness ==
    /\ upgraded /\ Called /\ dep.fresh /\ ~dep.pipOK
    /\ dep.events = <<>> /\ dep.outcome = "returned" /\ pkg = required_version

C10_WitnessStillFailing ==
    /\ ~upgraded /\ Called /\ dep.fresh /\ dep.hadKernel /\ Older(pkg)
    /\ Installs(dep) = 1 /\ Signals(dep) = 1 /\ restartPending

\* ------------------------------------------------------------------ versiontuple alone
\* 2.9 / 2.9.0, 2.90.0 / 2.91.0 / 2.90.1, 2.9.0 / 2.10.0
ExampleTuples == {<<2, 9>>, <<2, 9, 0>>, <<2, 90, 0>>, <<2, 91, 0>>, <<2, 90, 1>>, <<2, 10, 0>>}

VersionTuples == TuplesUpTo(Components, MaxSegs) \cup ExampleTuples

InitVersion ==
    /\ na \in VersionTuples /\ nb \in VersionTuples
    /\ sa = Render(na) /\ sb = Render(nb)
    /\ cmp = NoCmp
    /\ DepIdle /\ JobsIdle

\* versiontuple(sa) < versiontuple(sb), as line 32 evaluates it.
Compare ==
    /\ ~cmp.done
    /\ cmp' = [done |-> TRUE, ta |-> versiontuple(sa).val, tb |-> versiontuple(sb).val,
               less |-> TupleLess(versiontuple(sa).val, versiontuple(sb).val)]
    /\ UNCHANGED <<na, nb, sa, sb, depVars, jobVars>>

NextVersion == Compare

SpecVersion == InitVersion /\ [][NextVersion]_vars

\* C5: versiontuple gives back the integers the dotted string was written from, and
\* the < test on two such tuples is the lexicographic order on integers: the first
\* differing component decides, equal tuples are not less, a strict prefix is less.
C5_VersionOrderIsLexicographic ==
    cmp.done =>
        /\ cmp.ta = na /\ cmp.tb = nb
        /\ cmp.less <=> LexLess(na, nb)
        /\ na = nb => ~cmp.less
        /\ (Len(na) < Len(nb) /\ SubSeq(nb, 1, Len(na)) = na) => cmp.less
        /\ (na = <<2, 9>> /\ nb = <<2, 9, 0>>) => cmp.less
        /\ (na = <<2, 90, 0>> /\ nb = <<2, 91, 0>>) => cmp.less
        /\ (na = <<2, 9, 0>> /\ nb = <<2, 10, 0>>) => cmp.less
        /\ (na = <<2, 90, 1>> /\ nb = <<2, 90, 0>>) => ~cmp.less

C5_Witness ==
    cmp.done /\ sa = <<"2", ".", "9", ".", "0">> /\ sb = <<"2", ".", "1", "0", ".", "0">>
             /\ cmp.ta = <<2, 9, 0>> /\ cmp.tb = <<2, 10, 0>> /\ cmp.less

\* ------------------------------------------------------------------ the training-job service
\* Job names the notebooks give, and the name filters they look up.
JobNames ==
    { <<"a", "b", "-", "1">>, <<"a", "b", "-", "2">>, <<"x", "a", "b">>, <<"b", "a", "-", "1">> }

BaseNames == { <<"a", "b">>, <<"a", "b", "-">>, <<"b", "a">>, <<"a", "b", "c">> }

Statuses == {"InProgress", "Completed", "Failed"}

\* NameContains: sub occurs in name as a contiguous run.
Contains(name, sub) ==
    \E i \in 0..(Len(name) - Len(sub)) : SubSeq(name, i + 1, i + Len(sub)) = sub

\* Where a job's packaged model is written.
ArtifactUri(n) == <<"s3://bucket/">> \o n \o <<"/output/model.tar.gz">>

OutputPath(n) == <<"s3://bucket/">> \o n \o <<"/output">>

Summary(j) ==
    [TrainingJobName |-> j.name, CreationTime |-> j.created, TrainingJobStatus |-> j.status]

\* The jobs a listing request selects.
Selected(js, req) ==
    {j \in js : /\ Contains(j.name, req.NameContains)
                /\ (req.StatusEquals = "Any" \/ j.status = req.StatusEquals)}

InOrder(req, x, y) ==
    IF req.SortOrder = "Descending" THEN x.created >= y.created ELSE x.created <= y.created

\* list_training_jobs: the first page of the selected jobs sorted by creation time
\* in the requested order; the order among equal creation times is the service's.
ListTrainingJobs(js, req) ==
    LET sel == Selected(js, req)
        k == Min(Cardinality(sel), MaxResults)
    IN  { [TrainingJobSummaries |-> [i \in 1..k |-> Summary(page[i])]] :
            page \in { q \in [1..k -> sel] :
                         /\ \A i, l \in 1..k : i < l => (q[i] # q[l] /\ InOrder(req, q[i], q[l]))
                         /\ \A j \in sel : (\A i \in 1..k : q[i] # j) =>
                                              \A i \in 1..k : InOrder(req, q[i], j) } }

\* describe_training_job: the job's record, or the service's error for an unknown name.
DescribeTrainingJob(js, req) ==
    IF \E j \in js : j.name = req.TrainingJobName
    THEN LET j == CHOOSE x \in js : x.name = req.TrainingJobName
         IN  [ok |-> TRUE,
              body |-> [TrainingJobName |-> j.name, TrainingJobStatus |-> j.status,
                        CreationTime |-> j.created,
                        ModelArtifacts |-> [S3ModelArtifacts |-> j.artifacts],
                        OutputDataConfig |-> [S3OutputPath |-> OutputPath(j.name)]]]
    ELSE [ok |-> FALSE, body |-> <<>>]

\* A training job is started: the service stamps it with its clock, which may not
\* have advanced since the previous job.
CreateTrainingJob(n, tick) ==
    /\ Cardinality(jobs) < MaxJobs
    /\ \A j \in jobs : j.name # n
    /\ clock + tick >= 1 /\ clock + tick <= MaxTime
    /\ clock' = clock + tick
    /\ jobs' = jobs \cup {[name |-> n, status |-> "InProgress", created |-> clock + tick,
                           artifacts |-> ArtifactUri(n)]}
    /\ UNCHANGED <<call, depVars, verVars>>

\* A running job ends, completed or failed.
FinishTrainingJob(n, st) ==
    /\ \E j \in jobs : j.name = n /\ j.status = "InProgress"
    /\ jobs' = {IF j.name = n THEN [j EXCEPT !.status = st] ELSE j : j \in jobs}
    /\ UNCHANGED <<clock, call, depVars, verVars>>

\* ------------------------------------------------------------------ the job helpers
\* A bug the request could have: oldest first.
LatestRequestAscending(base_job_name) ==
    [NameContains |-> base_job_name, SortBy |-> "CreationTime",
     SortOrder |-> "Ascending", StatusEquals |-> "Completed"]

\* A bug the request could have: no status filter.
LatestRequestAnyStatus(base_job_name) ==
    [NameContains |-> base_job_name, SortBy |-> "CreationTime",
     SortOrder |-> "Descending", StatusEquals |-> "Any"]

\* Lines 5-6: the listing request.
LatestRequest(base_job_name) ==
    [NameContains |-> base_job_name, SortBy |-> "CreationTime",
     SortOrder |-> "Descending", StatusEquals |-> "Completed"]

\* Lines 7-10: the first summary's name, or the exception.
LatestResult(response) ==
    IF Len(response.TrainingJobSummaries) > 0
    THEN [outcome |-> "returned", value |-> response.TrainingJobSummaries[1].TrainingJobName]
    ELSE [outcome |-> "Exception", value |-> <<"Training job not found.">>]

get_latest_training_job_name(base_job_name) ==
    /\ \E response \in ListTrainingJobs(jobs, LatestRequest(base_job_name)) :
          call' = [op |-> "get_latest_training_job_name", arg |-> base_job_name,
                   requests |-> <<[api |-> "list_training_jobs", req |-> LatestRequest(base_job_name)]>>,
                   outcome |-> LatestResult(response).outcome,
                   value |-> LatestResult(response).value]
    /\ UNCHANGED <<jobs, clock, depVars, verVars>>

\* A bug the extraction could have: the output location, not the artifact.
ArtifactsOfOutputPath(response) == response.OutputDataConfig.S3OutputPath

\* Line 15: response['ModelArtifacts']['S3ModelArtifacts']
ArtifactsOf(response) == response.ModelArtifacts.S3ModelArtifacts

get_training_job_s3_model_artifacts(job_name) ==
    /\ LET req == [TrainingJobName |-> job_name]
           response == DescribeTrainingJob(jobs, req)
       IN  call' = [op |-> "get_training_job_s3_model_artifacts", arg |-> job_name,
                    requests |-> <<[api |-> "describe_training_job", req |-> req]>>,
                    outcome |-> IF response.ok THEN "returned" ELSE "ClientError",
                    value |-> IF response.ok THEN ArtifactsOf(response.body) ELSE <<>>]
    /\ UNCHANGED <<jobs, clock, depVars, verVars>>

InitJobs ==
    /\ jobs = {} /\ clock = 0 /\ call = NoJobCall
    /\ DepIdle /\ VerIdle

NextJobs ==
    \/ \E n \in JobNames, tick \in {0, 1} : CreateTrainingJob(n, tick)
    \/ \E n \in JobNames, st \in Statuses \ {"InProgress"} : FinishTrainingJob(n, st)
    \/ \E b \in BaseNames : get_latest_training_job_name(b)
    \/ \E n \in JobNames : get_training_job_s3_model_artifacts(n)

SpecJobs == InitJobs /\ [][NextJobs]_vars

\* The completed jobs whose name contains b.
CompletedMatches(b) == {j \in jobs : j.status = "Completed" /\ Contains(j.name, b)}

\* C1: when some completed job's name contains base_job_name, the call returns the
\* name of a completed job whose name contains it and whose creation time is the
\* greatest among the completed jobs whose names contain it.
C1_ReturnsLatestCompleted ==
    [][\A b \in BaseNames :
          (get_latest_training_job_name(b) /\ CompletedMatches(b) # {}) =>
              /\ call'.outcome = "returned"
              /\ \E j \in CompletedMatches(b) :
                    /\ j.name = call'.value
                    /\ \A k \in CompletedMatches(b) : k.created <= j.created]_vars

C1_Witness ==
    /\ call.op = "get_latest_training_job_name" /\ call.outcome = "returned"
    /\ \E j, k \in CompletedMatches(call.arg) :
          j.name = call.value /\ k.created < j.created
    /\ \E j \in jobs : Contains(j.name, call.arg) /\ j.status # "Completed"
                        /\ \A k \in CompletedMatches(call.arg) : j.created > k.created

\* C2: when no job is both completed and named with base_job_name, the call ends in
\* the exception 'Training job not found.', returns no name, and has issued one
\* listing request; jobs that match by name but are not completed change nothing.
C2_NotFoundWhenNoCompletedMatch ==
    [][\A b \in BaseNames :
          (get_latest_training_job_name(b) /\ CompletedMatches(b) = {}) =>
              /\ call'.outcome = "Exception"
              /\ call'.value = <<"Training job not found.">>
              /\ \A j \in jobs : call'.value # j.name
              /\ Len(call'.requests) = 1
              /\ call'.requests[1].api = "list_training_jobs"]_vars

C2_Witness ==
    /\ call.op = "get_latest_training_job_name" /\ call.outcome = "Exception"
    /\ CompletedMatches(call.arg) = {}
    /\ \E j \in jobs : Contains(j.name, call.arg) /\ j.status = "InProgress"
    /\ \E j \in jobs : Contains(j.name, call.arg) /\ j.status = "Failed"

\* C6: for a job the service describes, the call returns the storage URI held in
\* the job's model-artifact field as it stands, has issued one describe request,
\* and changes neither the jobs nor anything else outside its own result.
C6_ReturnsArtifactUriUnchanged ==
    [][\A n \in JobNames :
          (get_training_job_s3_model_artifacts(n) /\ \E j \in jobs : j.name = n) =>
              /\ call'.outcome = "returned"
              /\ \E j \in jobs : j.name = n /\ call'.value = j.artifacts
              /\ Len(call'.requests) = 1
              /\ call'.requests[1] = [api |-> "describe_training_job", req |-> [TrainingJobName |-> n]]
              /\ jobs' = jobs /\ clock' = clock
              /\ UNCHANGED <<depVars, verVars>>]_vars

C6_Witness ==
    /\ call.op = "get_training_job_s3_model_artifacts" /\ call.outcome = "returned"
    /\ \E j \in jobs : j.name = call.arg /\ j.status = "Completed" /\ call.value = j.artifacts
    /\ Cardinality(jobs) >= 2

====
